---- MODULE Spec2Model ----
(***************************************************************************)
(* The waveform engine of soggetto-cavato (src/soggetto/sound.py): the     *)
(* SoundWave class with its operators +, >>, *, **, clean and export, and  *)
(* the synthesizer functions generate_note and audio_sequence.             *)
(*                                                                         *)
(* Numbers.  Sample values are exact integers; the forward/inverse         *)
(* transform pair is exact, so ifft(fft(f) * fft(g)) is the circular       *)
(* convolution of f and g modulo their common length.  Frequencies passed  *)
(* to clean are given in half-Hertz (so that rate/2 is an integer input);  *)
(* the NOTE_FREQ table is kept in units of 1/10000 Hz.                     *)
(*                                                                         *)
(* Arrays.  A NumPy sample array is a sequence of pieces.  A data piece    *)
(* carries its values; a symbolic piece carries its length and the         *)
(* expression that defines its values (a sine tone, a partly masked        *)
(* spectrum, an arithmetic result over symbolic operands), which have no   *)
(* exact integer value.  Adjacent data pieces are always merged, so an     *)
(* array of known values is <<>> or one data piece.                        *)
(***************************************************************************)
EXTENDS Integers, Sequences, FiniteSets, TLC

VARIABLES
  pool,     \* the SoundWave objects the caller holds: <<w1, w2>>
  made,     \* the (rate, samples) each of them was constructed with
  cleaned,  \* the indices of the pool on which clean has been called
  last,     \* the last call: operation, arguments, outcome, returned object
  file      \* the wav file on disk: <<>> or <<[rate, data, nonfinite]>>

vars == <<pool, made, cleaned, last, file>>

(* ---------------------------- bounds ---------------------------------- *)

MaxLen == 3
MaxNotes == 3
MaxDuration == 2

SampleValues == {0, 1}
Rates == {1, 2}
DTypes == {"int16", "float64"}

(* ------------------------- small helpers ------------------------------ *)

Min(x, y) == IF x < y THEN x ELSE y
Max(x, y) == IF x < y THEN y ELSE x
Abs(x) == IF x < 0 THEN -x ELSE x

RECURSIVE SumTo(_, _)
\* sum of f[1] .. f[n]
SumTo(f, n) == IF n = 0 THEN 0 ELSE f[n] + SumTo(f, n - 1)

RECURSIVE MaxAbs(_)
\* abs(samples).max() of a non-empty sequence of values
MaxAbs(s) ==
  IF Len(s) = 1 THEN Abs(s[1]) ELSE Max(Abs(s[1]), MaxAbs(Tail(s)))

RECURSIVE SeqsUpTo(_, _)
\* all sequences over S of length 0 .. n
SeqsUpTo(S, n) ==
  IF n = 0 THEN {<<>>}
  ELSE LET shorter == SeqsUpTo(S, n - 1)
       IN  shorter \cup {Append(s, x) : s \in {t \in shorter : Len(t) = n - 1}, x \in S}

(* ------------------------------ arrays -------------------------------- *)

Zeros(k) == [i \in 1..k |-> 0]

\* an array of known values
Data(vals) ==
  IF vals = <<>> THEN <<>>
  ELSE <<[n |-> Len(vals), vals |-> vals, sym |-> <<>>]>>

\* an array of n values defined by the expression sym
Symbolic(n, sym) ==
  IF n = 0 THEN <<>> ELSE <<[n |-> n, vals |-> <<>>, sym |-> sym]>>

IsData(a) == \A i \in DOMAIN a : a[i].sym = <<>>

\* the values of an array of known values
Vals(a) == IF a = <<>> THEN <<>> ELSE a[1].vals

RECURSIVE Size(_)
\* len(array)
Size(a) == IF a = <<>> THEN 0 ELSE a[1].n + Size(Tail(a))

IsZero(a) == IsData(a) /\ \A i \in DOMAIN Vals(a) : Vals(a)[i] = 0

\* np.concatenate((a, b))
Concatenate(a, b) ==
  IF a = <<>> THEN b
  ELSE IF b = <<>> THEN a
  ELSE LET x == a[Len(a)]
           y == b[1]
       IN  IF x.sym = <<>> /\ y.sym = <<>>
           THEN SubSeq(a, 1, Len(a) - 1)
                  \o <<[n |-> x.n + y.n, vals |-> x.vals \o y.vals, sym |-> <<>>]>>
                  \o Tail(b)
           ELSE a \o b

\* np.pad(a, (0, k), 'constant') for k >= 0
Pad(a, k) == Concatenate(a, Data(Zeros(k)))

\* a + b on arrays of one length
ArrayAdd(a, b) ==
  IF IsData(a) /\ IsData(b)
  THEN Data([i \in 1..Size(a) |-> Vals(a)[i] + Vals(b)[i]])
  ELSE Symbolic(Size(a), <<"add", a, b>>)

\* ifft(np.multiply(fft(f), fft(g))) on arrays of one length P >= 1:
\* the circular convolution of f and g modulo P
Convolve(f, g) ==
  LET P == Size(f)
  IN  IF IsData(f) /\ IsData(g)
      THEN Data([k \in 1..P |->
                  SumTo([i \in 1..P |-> Vals(f)[i] * Vals(g)[((k - i) % P) + 1]], P)])
      ELSE Symbolic(P, <<"ifft(fft*fft)", f, g>>)

\* a[:k] for k >= 0
Prefix(a, k) ==
  IF k >= Size(a) THEN a
  ELSE IF IsData(a) THEN Data(SubSeq(Vals(a), 1, k))
  ELSE Symbolic(k, <<"take", a, k>>)

\* the indices i of a length-n array selected by the slice [start:stop]
PySlice(start, stop, n) ==
  LET Norm(i) == IF i < 0 THEN Max(i + n, 0) ELSE Min(i, n)
  IN  {i \in 0..(n - 1) : Norm(start) <= i /\ i < Norm(stop)}

\* ifft(dft) where dft is fft(a) with the bins of Z set to 0
Masked(a, Z) ==
  LET N == Size(a)
      inner == Len(a) = 1 /\ a[1].sym # <<>> /\ a[1].sym[1] = "masked"
      base == IF inner THEN a[1].sym[2] ELSE a
      bins == IF inner THEN a[1].sym[3] \cup Z ELSE Z
  IN  IF Z = {} \/ IsZero(a) THEN a
      ELSE IF bins = 0..(N - 1) THEN Data(Zeros(N))
      ELSE Symbolic(N, <<"masked", base, bins>>)

(* ---------------------------- SoundWave ------------------------------- *)

\* the result dtype of an arithmetic operation or concatenation
Promote(d, e) ==
  IF "complex128" \in {d, e} THEN "complex128"
  ELSE IF "float64" \in {d, e} THEN "float64"
  ELSE "int16"

\* SoundWave(rate, samples); dtype is samples.dtype
SoundWave(rate, samples, dtype) ==
  [rate |-> rate, samples |-> samples, dtype |-> dtype]

Return(w) == [error |-> "", wave |-> <<w>>]
Raise(kind) == [error |-> kind, wave |-> <<>>]

\* __add__ with the rate check of __rshift__ added
AddRateChecked(self, other) ==
  IF self.rate # other.rate
  THEN Raise("RateMismatch")
  ELSE IF Size(self.samples) # Size(other.samples)
  THEN Raise("LengthMismatch")
  ELSE Return(SoundWave(self.rate,
                        ArrayAdd(self.samples, other.samples),
                        Promote(self.dtype, other.dtype)))

\* SoundWave.__add__
__add__(self, other) ==
  IF Size(self.samples) # Size(other.samples)
  THEN Raise("LengthMismatch")
  ELSE Return(SoundWave(self.rate,
                        ArrayAdd(self.samples, other.samples),
                        Promote(self.dtype, other.dtype)))

\* __rshift__ with the operands of np.concatenate swapped
RShiftSwapped(self, other) ==
  IF self.rate # other.rate
  THEN Raise("RateMismatch")
  ELSE Return(SoundWave(self.rate,
                        Concatenate(other.samples, self.samples),
                        Promote(self.dtype, other.dtype)))

\* SoundWave.__rshift__
__rshift__(self, other) ==
  IF self.rate # other.rate
  THEN Raise("RateMismatch")
  ELSE Return(SoundWave(self.rate,
                        Concatenate(self.samples, other.samples),
                        Promote(self.dtype, other.dtype)))

\* the two np.pad lines of __mul__: f is padded first, then g against the
\* padded f
MulPadded(f0, g0) ==
  LET f == Pad(f0, Abs(Size(g0) - Size(f0)))
      g == Pad(g0, Abs(Size(f) - Size(g0)))
  IN  <<f, g>>

\* SoundWave.__mul__ (fft raises on an empty array)
__mul__(self, other) ==
  IF self.rate # other.rate
  THEN Raise("RateMismatch")
  ELSE LET fg == MulPadded(self.samples, other.samples)
       IN  IF Size(fg[1]) = 0
           THEN Raise("LibraryError")
           ELSE Return(SoundWave(self.rate, Convolve(fg[1], fg[2]), "complex128"))

RECURSIVE Pow2(_)
Pow2(a) == IF a = 0 THEN 1 ELSE 2 * Pow2(a - 1)

RECURSIVE CeilLog2From(_, _)
CeilLog2From(s, a) == IF Pow2(a) >= s THEN a ELSE CeilLog2From(s, a + 1)

\* int(np.ceil(np.log2(s))) for s >= 1
CeilLog2(s) == CeilLog2From(s, 0)

\* the transform length taken from the longer operand alone
PowLengthMax(m, n) == Pow2(CeilLog2(Max(Max(m, n), 1)))

\* the transform length 2**a of __pow__ for operands of lengths m and n
PowLength(m, n) == Pow2(CeilLog2(n + m - 1))

\* SoundWave.__pow__ (int() raises on log2 of a number <= 0, np.pad on a
\* negative width)
__pow__(self, other) ==
  IF self.rate # other.rate
  THEN Raise("RateMismatch")
  ELSE LET m == Size(self.samples)
           n == Size(other.samples)
       IN  IF n + m - 1 <= 0 \/ PowLength(m, n) < m \/ PowLength(m, n) < n
           THEN Raise("LibraryError")
           ELSE LET f == Pad(self.samples, PowLength(m, n) - m)
                    g == Pad(other.samples, PowLength(m, n) - n)
                IN  Return(SoundWave(self.rate,
                                     Prefix(Convolve(f, g), m + n - 1),
                                     "complex128"))

\* int(freq * (len(self.samples) / self.rate)), freq given in half-Hertz
Bin(freq2, N, rate) == (freq2 * N) \div (2 * rate)

\* the bins clean sets to 0: dft[k_low:k_high] and dft[n - k_high:n - k_low]
ZeroedBins(N, rate, low2, high2) ==
  LET k_low == Bin(low2, N, rate)
      k_high == Bin(high2, N, rate)
  IN  PySlice(k_low, k_high, N) \cup PySlice(N - k_high, N - k_low, N)

\* SoundWave.clean: the object after the call (fft raises on an empty array,
\* before self.samples is assigned)
clean(self, low2, high2) ==
  LET N == Size(self.samples)
  IN  IF N = 0
      THEN Raise("LibraryError")
      ELSE Return(SoundWave(self.rate,
                            Masked(self.samples, ZeroedBins(N, self.rate, low2, high2)),
                            "complex128"))

\* astype(np.int16) of the float num/den, den > 0: truncation toward zero
Trunc(num, den) == IF num >= 0 THEN num \div den ELSE -((-num) \div den)

\* what astype(np.int16) may make of NaN (undefined in C; platform dependent)
CastOfNaN == {0, -32768}

\* whether abs(samples).max() is 0: known for data, open for a symbolic array
PeakIsZero(a) == IF IsData(a) THEN {IsZero(a)} ELSE BOOLEAN

\* self.samples after an export that scales self.samples in place
SamplesScaledInPlace(self, force) ==
  IF (self.dtype # "int16" \/ force) /\ IsData(self.samples) /\ ~IsZero(self.samples)
  THEN Data([i \in 1..Size(self.samples) |->
              Trunc(Vals(self.samples)[i] * 32767, MaxAbs(Vals(self.samples)))])
  ELSE self.samples

\* self.samples after export: the scaling works on a new local array
SamplesAfterExport(self, force) == self.samples

\* SoundWave.export: the possible outcomes of the call.  rescaled: the
\* scaling branch was taken; zeroPeak: it divided by a peak of 0.
export(self, force) ==
  LET a == self.samples
      N == Size(a)
      Out(err, f, resc, zero) ==
        [error |-> err, file |-> f, rescaled |-> resc, zeroPeak |-> zero]
      Wav(data, nonfinite) ==
        <<[rate |-> self.rate, data |-> data, nonfinite |-> nonfinite]>>
  IN  IF self.dtype # "int16" \/ force
      THEN IF N = 0
           THEN {Out("LibraryError", <<>>, TRUE, FALSE)}
           ELSE UNION {
                  IF zero
                  THEN {Out("", Wav(Data([i \in 1..N |-> g]), TRUE), TRUE, TRUE)
                          : g \in CastOfNaN}
                  ELSE IF IsData(a)
                  THEN {Out("", Wav(Data([i \in 1..N |->
                                Trunc(Vals(a)[i] * 32767, MaxAbs(Vals(a)))]), FALSE),
                            TRUE, FALSE)}
                  ELSE {Out("", Wav(Symbolic(N, <<"int16(real(x/peak*32767))", a>>), FALSE),
                            TRUE, FALSE)}
                  : zero \in PeakIsZero(a)}
      ELSE {Out("", Wav(a, FALSE), FALSE, FALSE)}

(* --------------------------- synthesizer ------------------------------ *)

\* NOTE_FREQ, in 1/10000 Hz
NOTE_FREQ ==
  [C |-> 2616256, D |-> 2936648, E |-> 3296276, F |-> 3492282, G |-> 3919954]

\* rate = 44100 in generate_note
SampleRate == 44100

\* generate_note: np.sin(2 * np.pi * np.linspace(0, duration, N) * frequency)
generate_note(frequency, duration) ==
  LET N == SampleRate * duration
  IN  SoundWave(SampleRate, Symbolic(N, <<"sin", frequency, duration>>), "float64")

RECURSIVE ShiftAll(_, _, _, _)
\* the loop of audio_sequence: audio = audio >> generate_note(freq, duration)
ShiftAll(audio, hertz, duration, tones) ==
  IF hertz = <<>>
  THEN [error |-> "", wave |-> <<audio>>, tones |-> tones]
  ELSE LET r == __rshift__(audio, generate_note(Head(hertz), duration))
       IN  IF r.error # ""
           THEN [error |-> r.error, wave |-> <<>>, tones |-> tones + 1]
           ELSE ShiftAll(r.wave[1], Tail(hertz), duration, tones + 1)

\* audio_sequence looking each note up only when its tone is due
AudioSequenceLazy(note_sequence, duration) ==
  LET bad == {i \in DOMAIN note_sequence : note_sequence[i] \notin DOMAIN NOTE_FREQ}
      first == CHOOSE i \in bad : \A j \in bad : i <= j
  IN  IF Len(note_sequence) = 0
      THEN [error |-> "EmptyInput", wave |-> <<>>, tones |-> 0]
      ELSE IF bad # {}
      THEN [error |-> "UnsupportedSymbol", wave |-> <<>>, tones |-> first - 1]
      ELSE LET hertz == [i \in DOMAIN note_sequence |-> NOTE_FREQ[note_sequence[i]]]
           IN  ShiftAll(generate_note(hertz[1], duration), Tail(hertz), duration, 1)

\* audio_sequence looping over hertz instead of hertz[1:]
AudioSequenceAll(note_sequence, duration) ==
  IF Len(note_sequence) = 0
  THEN [error |-> "EmptyInput", wave |-> <<>>, tones |-> 0]
  ELSE IF \E i \in DOMAIN note_sequence : note_sequence[i] \notin DOMAIN NOTE_FREQ
  THEN [error |-> "UnsupportedSymbol", wave |-> <<>>, tones |-> 0]
  ELSE LET hertz == [i \in DOMAIN note_sequence |-> NOTE_FREQ[note_sequence[i]]]
       IN  ShiftAll(generate_note(hertz[1], duration), hertz, duration, 1)

\* audio_sequence; tones counts the calls of generate_note
audio_sequence(note_sequence, duration) ==
  IF Len(note_sequence) = 0
  THEN [error |-> "EmptyInput", wave |-> <<>>, tones |-> 0]
  ELSE IF \E i \in DOMAIN note_sequence : note_sequence[i] \notin DOMAIN NOTE_FREQ
  THEN [error |-> "UnsupportedSymbol", wave |-> <<>>, tones |-> 0]
  ELSE LET hertz == [i \in DOMAIN note_sequence |-> NOTE_FREQ[note_sequence[i]]]
       IN  ShiftAll(generate_note(hertz[1], duration), Tail(hertz), duration, 1)

(* ------------------------------ calls --------------------------------- *)

\* the record of a call; result holds the returned SoundWave, if any
Call(op, args, error, result) ==
  [op |-> op, args |-> args, error |-> error, result |-> result,
   tones |-> 0, rescaled |-> FALSE, zeroPeak |-> FALSE, wrote |-> FALSE]

NoCall == Call("", <<>>, "", <<>>)

\* a binary operator leaves the pool and the file alone and returns a new object
Operator(op, i, j, r) ==
  /\ last' = Call(op, <<i, j>>, r.error, r.wave)
  /\ UNCHANGED <<pool, made, cleaned, file>>

\* pool[i] + pool[j]
Add(i, j) == Operator("add", i, j, __add__(pool[i], pool[j]))

\* pool[i] >> pool[j]
RShift(i, j) == Operator("rshift", i, j, __rshift__(pool[i], pool[j]))

\* pool[i] * pool[j]
Mul(i, j) == Operator("mul", i, j, __mul__(pool[i], pool[j]))

\* pool[i] ** pool[j]
Pow(i, j) == Operator("pow", i, j, __pow__(pool[i], pool[j]))

\* pool[i].clean(low_freq, high_freq), frequencies in half-Hertz
Clean(i, low2, high2) ==
  LET r == clean(pool[i], low2, high2)
  IN  /\ pool' = IF r.error = "" THEN [pool EXCEPT ![i] = r.wave[1]] ELSE pool
      /\ cleaned' = cleaned \cup {i}
      /\ last' = Call("clean", <<i, low2, high2>>, r.error, <<>>)
      /\ UNCHANGED <<made, file>>

\* pool[i].export(filename, force)
Export(i, force) ==
  \E o \in export(pool[i], force) :
    /\ file' = IF o.file # <<>> THEN o.file ELSE file
    /\ pool' = [pool EXCEPT ![i].samples = SamplesAfterExport(pool[i], force)]
    /\ last' = [Call("export", <<i, force>>, o.error, <<>>) EXCEPT
                  !.rescaled = o.rescaled, !.zeroPeak = o.zeroPeak,
                  !.wrote = (o.file # <<>>)]
    /\ UNCHANGED <<made, cleaned>>

\* generate_note(frequency, duration)
GenerateNote(frequency, duration) ==
  /\ last' = [Call("generate_note", <<frequency, duration>>, "",
                   <<generate_note(frequency, duration)>>) EXCEPT !.tones = 1]
  /\ UNCHANGED <<pool, made, cleaned, file>>

\* audio_sequence(note_sequence, duration)
AudioSequence(note_sequence, duration) ==
  LET r == audio_sequence(note_sequence, duration)
  IN  /\ last' = [Call("audio_sequence", <<note_sequence, duration>>, r.error, r.wave)
                    EXCEPT !.tones = r.tones]
      /\ UNCHANGED <<pool, made, cleaned, file>>

(* -------------------------- specifications ---------------------------- *)

\* every sample array of length <= MaxLen over SampleValues
Arrays == {Data(s) : s \in SeqsUpTo(SampleValues, MaxLen)}

\* the arrays 1, 1, ..., 1 of length <= MaxLen
OnesArrays == {Data([i \in 1..n |-> 1]) : n \in 0..MaxLen}

Waves(arrays, dtypes) ==
  {SoundWave(r, a, d) : r \in Rates, a \in arrays, d \in dtypes}

\* two SoundWave objects, constructed from ws1 and ws2; nothing called or
\* written yet
Start(ws1, ws2) ==
  /\ pool \in ws1 \X ws2
  /\ made = pool
  /\ cleaned = {}
  /\ last = NoCall
  /\ file = <<>>

\* no call has been made yet
Ready == last = NoCall

\* the frequency bands offered to clean, in half-Hertz
Bands == {<<0, 1>>, <<0, 2>>, <<1, 2>>}

\* the symbols offered to audio_sequence: the note table and one stranger
Symbols == DOMAIN NOTE_FREQ \cup {"A"}

\* the phrase of "Josquin des Prez"
Josquin == <<"C", "G", "E", "D", "D">>

NoteSequences == SeqsUpTo(Symbols, MaxNotes) \cup {Josquin}

Durations == 1..MaxDuration

AnyAdd == \E i \in DOMAIN pool, j \in DOMAIN pool : Add(i, j)
AnyRShift == \E i \in DOMAIN pool, j \in DOMAIN pool : RShift(i, j)
AnyMul == \E i \in DOMAIN pool, j \in DOMAIN pool : Mul(i, j)
AnyPow == \E i \in DOMAIN pool, j \in DOMAIN pool : Pow(i, j)
AnyExport == \E i \in DOMAIN pool, force \in BOOLEAN : Export(i, force)
AnyClean == \E i \in DOMAIN pool, band \in Bands : Clean(i, band[1], band[2])
AnyGenerateNote ==
  \E note \in DOMAIN NOTE_FREQ, d \in Durations : GenerateNote(NOTE_FREQ[note], d)
AnyAudioSequence ==
  \E notes \in NoteSequences, d \in Durations : AudioSequence(notes, d)

\* the SoundWave class under any sequence of calls, on a float64 and an
\* int16 wave
Init == Start(Waves(OnesArrays, {"float64"}), Waves(OnesArrays, {"int16"}))
Next == AnyAdd \/ AnyRShift \/ AnyMul \/ AnyPow \/ AnyExport \/ AnyClean
Spec == Init /\ [][Next]_vars

\* one call of a SoundWave method on every pair of small sample arrays
InitOps == Start(Waves(Arrays, DTypes), Waves(Arrays, DTypes))
NextOps ==
  \/ Ready /\ AnyAdd
  \/ Ready /\ AnyRShift
  \/ Ready /\ AnyMul
  \/ Ready /\ AnyPow
  \/ Ready /\ AnyExport
  \/ Ready /\ AnyClean
SpecOps == InitOps /\ [][NextOps]_vars

\* one call of the synthesizer, or of a rate-checking operator, beside two
\* one-sample waves
InitSynth == Start(Waves({Data(<<1>>)}, {"float64"}), Waves({Data(<<1>>)}, {"float64"}))
NextSynth ==
  \/ Ready /\ AnyRShift
  \/ Ready /\ AnyMul
  \/ Ready /\ AnyPow
  \/ Ready /\ AnyGenerateNote
  \/ Ready /\ AnyAudioSequence
SpecSynth == InitSynth /\ [][NextSynth]_vars

(* ------------------------------ claims -------------------------------- *)

\* the operands and the result of the last binary operator call
Self == pool[last.args[1]]
Other == pool[last.args[2]]
Result == last.result[1]

Called(op) == last.op = op

\* sample k (from 0) of the acyclic convolution of the value sequences a, b
Linear(a, b, k) ==
  SumTo([i \in 1..Len(a) |->
          IF k - (i - 1) >= 0 /\ k - (i - 1) < Len(b)
          THEN a[i] * b[k - (i - 1) + 1] ELSE 0], Len(a))

\* C1: a >> b on equal rates returns the common rate and a.samples followed
\* by b.samples, of length len(a) + len(b); and (a >> b) >> c has the samples
\* of a >> (b >> c) for every c of the same rate.
C1_Concatenate ==
  (Called("rshift") /\ Self.rate = Other.rate) =>
    /\ last.error = ""
    /\ Result.rate = Self.rate
    /\ Result.rate = Other.rate
    /\ Size(Result.samples) = Size(Self.samples) + Size(Other.samples)
    /\ Vals(Result.samples) = Vals(Self.samples) \o Vals(Other.samples)
    /\ \A c \in {pool[1], pool[2]} :
         c.rate = Self.rate =>
           __rshift__(Result, c).wave[1].samples
             = __rshift__(Self, __rshift__(Other, c).wave[1]).wave[1].samples

C1_Witness ==
  /\ Called("rshift") /\ last.error = ""
  /\ Size(Self.samples) = 2 /\ Size(Other.samples) = 3
  /\ Vals(Self.samples) # SubSeq(Vals(Other.samples), 1, 2)

\* C3: a ** b on equal rates and lengths m, n >= 1 pads to the smallest
\* power of two >= m + n - 1 and returns m + n - 1 samples, sample k being
\* the acyclic convolution sum over i + j = k of a[i] * b[j].
C3_ConvolveLinear ==
  LET m == Size(Self.samples)
      n == Size(Other.samples)
      P == PowLength(m, n)
  IN  (Called("pow") /\ Self.rate = Other.rate /\ m >= 1 /\ n >= 1) =>
        /\ last.error = ""
        /\ \E a \in 0..P : P = Pow2(a)
        /\ P >= m + n - 1
        /\ P = 1 \/ P \div 2 < m + n - 1
        /\ Size(Result.samples) = m + n - 1
        /\ \A k \in 0..(m + n - 2) :
             Vals(Result.samples)[k + 1]
               = Linear(Vals(Self.samples), Vals(Other.samples), k)

C3_Witness ==
  /\ Called("pow") /\ last.error = ""
  /\ Size(Self.samples) = 3 /\ Size(Other.samples) = 2
  /\ \A i \in 1..3 : Vals(Self.samples)[i] = 1
  /\ \A i \in 1..2 : Vals(Other.samples)[i] = 1
  /\ Vals(Result.samples) = <<1, 2, 2, 1>>

\* C4: a * b on equal rates pads only the shorter operand, so the result has
\* length max(len(a), len(b)), in either order of the operands.
C4_ConvolveCircular ==
  (Called("mul") /\ last.error = "") =>
    Size(Result.samples) = Max(Size(Self.samples), Size(Other.samples))

\* C5: clean(0, rate/2) zeroes every DFT bin 0 .. N-1, for every N >= 1.
C5_FullBand ==
  LET w == pool[last.args[1]]
      N == Size(w.samples)
  IN  (Called("clean") /\ last.error = ""
         /\ last.args[2] = 0 /\ last.args[3] = w.rate) =>
        /\ ZeroedBins(N, w.rate, 0, w.rate) = 0..(N - 1)
        /\ IsZero(w.samples)

\* C6: an export that rescales a buffer of peak 0 ends in a
\* NormalizationDomainError, writes no file and lets no non-finite or garbage
\* value reach a file.
C6_ZeroPeakExport ==
  (Called("export") /\ last.rescaled /\ last.zeroPeak) =>
    /\ last.error = "NormalizationDomainError"
    /\ ~last.wrote
    /\ \A i \in DOMAIN file : ~file[i].nonfinite

\* C7: a + b fails with LengthMismatch exactly when the lengths differ; the
\* rates are not compared, and a result has a's rate and the elementwise sums.
C7_Add ==
  Called("add") =>
    /\ last.error \in {"", "LengthMismatch"}
    /\ last.error = "LengthMismatch" <=> Size(Self.samples) # Size(Other.samples)
    /\ last.error = "" =>
         /\ Result.rate = Self.rate
         /\ Size(Result.samples) = Size(Self.samples)
         /\ \A i \in 1..Size(Self.samples) :
              Vals(Result.samples)[i] = Vals(Self.samples)[i] + Vals(Other.samples)[i]

C7_Witness ==
  /\ Called("add") /\ last.error = ""
  /\ Self.rate # Other.rate
  /\ Size(Self.samples) = 3
  /\ Vals(Result.samples) = <<2, 1, 1>>

\* C8: a violated precondition ends the call in its error before any effect:
\* RateMismatch for >>, * and ** on differing rates, EmptyInput for
\* audio_sequence on no notes, UnsupportedSymbol for a symbol outside the note
\* table; nothing is returned, no tone was generated, no wave has changed.
C8_Preconditions ==
  /\ (last.op \in {"rshift", "mul", "pow"} /\ Self.rate # Other.rate) =>
       /\ last.error = "RateMismatch"
       /\ last.result = <<>>
       /\ pool = made /\ file = <<>>
  /\ (Called("audio_sequence") /\ last.args[1] = <<>>) =>
       /\ last.error = "EmptyInput"
       /\ last.result = <<>> /\ last.tones = 0
       /\ pool = made /\ file = <<>>
  /\ (Called("audio_sequence")
        /\ \E i \in DOMAIN last.args[1] : last.args[1][i] \notin DOMAIN NOTE_FREQ) =>
       /\ last.error = "UnsupportedSymbol"
       /\ last.result = <<>> /\ last.tones = 0
       /\ pool = made /\ file = <<>>

C8_Witness ==
  /\ Called("audio_sequence")
  /\ last.args[1] = <<"C", "G", "A">>
  /\ last.error = "UnsupportedSymbol"

\* C2: audio_sequence on n >= 1 notes of the table returns one wave at rate
\* 44100 of n * rate * duration samples whose i-th block of rate * duration
\* samples is the tone of the i-th note.
C2_AudioSequence ==
  LET notes == last.args[1]
      duration == last.args[2]
      block == SampleRate * duration
  IN  (Called("audio_sequence") /\ notes # <<>>
        /\ \A i \in DOMAIN notes : notes[i] \in DOMAIN NOTE_FREQ) =>
        /\ last.error = ""
        /\ Result.rate = 44100
        /\ Size(Result.samples) = Len(notes) * 44100 * duration
        /\ Len(Result.samples) = Len(notes)
        /\ \A i \in DOMAIN notes :
             /\ Size(SubSeq(Result.samples, 1, i - 1)) = (i - 1) * block
             /\ <<Result.samples[i]>>
                  = generate_note(NOTE_FREQ[notes[i]], duration).samples

C2_Witness ==
  /\ Called("audio_sequence")
  /\ last.args = <<Josquin, 2>>
  /\ last.error = ""
  /\ Size(Result.samples) = 5 * 44100 * 2

\* C9: a * b and a ** b agree on the first min(len(a), len(b)) samples
\* exactly when the acyclic convolution has no non-zero sample at an index >=
\* max(len(a), len(b)), the circular transform length.
C9_Agreement ==
  LET a == Vals(Self.samples)
      b == Vals(Other.samples)
      m == Len(a)
      n == Len(b)
      lin == __pow__(Self, Other)
      agree == \A k \in 1..Min(m, n) :
                 Vals(Result.samples)[k] = Vals(lin.wave[1].samples)[k]
      padded == \A k \in Max(m, n)..(m + n - 2) : Linear(a, b, k) = 0
  IN  (Called("mul") /\ last.error = "" /\ m >= 1 /\ n >= 1) => (agree <=> padded)

\* C10: every wave keeps the rate it was constructed with, and its samples
\* differ from the constructed ones only if clean was called on it; the
\* operators return new objects.
C10_Frame ==
  /\ \A i \in DOMAIN pool :
       /\ pool[i].rate = made[i].rate
       /\ pool[i].samples # made[i].samples => i \in cleaned
  /\ (last.op \in {"add", "rshift", "mul", "pow"} /\ last.error = "") =>
       Len(last.result) = 1
  /\ last.op \in {"export", "clean"} => last.result = <<>>

C10_Witness ==
  /\ cleaned = {1}
  /\ pool[1].samples # made[1].samples
  /\ Called("export") /\ last.args[1] = 2 /\ last.rescaled /\ last.wrote
  /\ Size(pool[2].samples) = 3

====
